---- MODULE Spec2Model ----
(***************************************************************************)
(* Model of the Sudoku engine (lib/sudoku: generatePuzzle, countSolutions, *)
(* solvePuzzle, isValidPlacement, getConflicts, isBoardComplete).          *)
(*                                                                         *)
(* The source fixes the box side to 3 and the grid side to 9.  Every loop  *)
(* bound of the source is written here in terms of Box and N = Box * Box,  *)
(* and the model is checked at Box = 2 (the 4x4 game), where the search    *)
(* spaces of the backtracking functions can be enumerated.                 *)
(*                                                                         *)
(* A grid is a function [Idx -> [Idx -> cell]], indexed from 0 as in the   *)
(* source.  A cell is a digit 1..N, the number 0 (the filler's "empty")    *)
(* or NULL (the Board type's null).  0 and NULL are different values, as   *)
(* in the source, and the conversions between them are modelled.           *)
(***************************************************************************)
EXTENDS Integers, Sequences, FiniteSets, TLC

\* Side of a box (3 in the source; the model is checked at 2).
Box == 2

\* Side of the grid (the literal 9 of the source's loops).
N == Box * Box

\* Number of cells (the literal 81 of generatePuzzle).
NumCells == N * N

\* The value null of a cell of type Board.
NULL == -1

\* The value null where a whole Board is expected (solvePuzzle's failure).
NoBoard == <<>>

Idx == 0 .. (N - 1)
Digits == 1 .. N
Difficulty == {"easy", "medium", "hard", "expert"}

\* Clue targets per difficulty.  The source's 40/32/26/22 of 81 cells are
\* scaled to the 16 cells of the 4x4 grid (same proportions, rounded).
DIFFICULTY_CLUES == [easy |-> 8, medium |-> 6, hard |-> 5, expert |-> 4]

\* Length of the tape of random numbers a run of generatePuzzle draws from.
TapeLen == 4

\* Resolution of Math.random(): it returns t / RandRes for t in 0..RandRes-1.
RandRes == 4

Cells == Idx \X Idx

\* Array.from({length: 9}, () => Array(9).fill(v))
ConstGrid(v) == [r \in Idx |-> [c \in Idx |-> v]]

\* board.map(r => r.map(v => v === 0 ? null : v))
ZeroToNull(board) ==
  [r \in Idx |-> [c \in Idx |-> IF board[r][c] = 0 THEN NULL ELSE board[r][c]]]

\* b.map(r => r.map(v => v === null ? 0 : v))
NullToZero(board) ==
  [r \in Idx |-> [c \in Idx |-> IF board[r][c] = NULL THEN 0 ELSE board[r][c]]]

\* Math.floor(row / 3) * 3
BoxOrigin(i) == (i \div Box) * Box

\* isValid without its first scan (the row).
isValidNoRow(board, row, col, num) ==
  /\ \A r \in Idx : board[r][col] # num
  /\ \A r \in BoxOrigin(row) .. (BoxOrigin(row) + Box - 1) :
       \A c \in BoxOrigin(col) .. (BoxOrigin(col) + Box - 1) :
         board[r][c] # num

\* isValid without its third scan (the box).
isValidNoBox(board, row, col, num) ==
  /\ \A c \in Idx : board[row][c] # num
  /\ \A r \in Idx : board[r][col] # num

\* isValid(board, row, col, num): the cell (row, col) itself is scanned too.
isValid(board, row, col, num) ==
  /\ \A c \in Idx : board[row][c] # num
  /\ \A r \in Idx : board[r][col] # num
  /\ \A r \in BoxOrigin(row) .. (BoxOrigin(row) + Box - 1) :
       \A c \in BoxOrigin(col) .. (BoxOrigin(col) + Box - 1) :
         board[r][c] # num

\* isValidPlacement whose box scan does not skip (row, col).
isValidPlacementBoxSelf(board, row, col, num) ==
  /\ \A c \in Idx : ~(c # col /\ board[row][c] = num)
  /\ \A r \in Idx : ~(r # row /\ board[r][col] = num)
  /\ \A r \in BoxOrigin(row) .. (BoxOrigin(row) + Box - 1) :
       \A c \in BoxOrigin(col) .. (BoxOrigin(col) + Box - 1) :
         board[r][c] # num

\* isValidPlacement(board, row, col, num): each scan skips (row, col).
isValidPlacement(board, row, col, num) ==
  /\ \A c \in Idx : ~(c # col /\ board[row][c] = num)
  /\ \A r \in Idx : ~(r # row /\ board[r][col] = num)
  /\ \A r \in BoxOrigin(row) .. (BoxOrigin(row) + Box - 1) :
       \A c \in BoxOrigin(col) .. (BoxOrigin(col) + Box - 1) :
         ~((r # row \/ c # col) /\ board[r][c] = num)

\* The template string `${r}-${c}` used as the key of a conflict.
Key(r, c) == ToString(r) \o "-" \o ToString(c)

\* getConflicts calling the fill-time check isValid, which scans the cell
\* itself too.
getConflictsFillTime(board) ==
  { Key(rc[1], rc[2]) : rc \in
      { x \in Cells : /\ board[x[1]][x[2]] # NULL
                      /\ ~isValid(board, x[1], x[2], board[x[1]][x[2]]) } }

\* getConflicts(board)
getConflicts(board) ==
  { Key(rc[1], rc[2]) : rc \in
      { x \in Cells : /\ board[x[1]][x[2]] # NULL
                      /\ ~isValidPlacement(board, x[1], x[2], board[x[1]][x[2]]) } }

\* isBoardComplete(board, solution)
isBoardComplete(board, sol) ==
  \A r \in Idx : \A c \in Idx : board[r][c] = sol[r][c]

RECURSIVE ScanFrom(_, _, _)

\* The nested loops `for row ... for col ... if (board[row][col] === e)`
\* continued from row-major position k: the position of the first cell
\* equal to e, or NumCells when the loops run to their end.
ScanFrom(board, e, k) ==
  IF k >= NumCells THEN NumCells
  ELSE IF board[k \div N][k % N] = e THEN k
       ELSE ScanFrom(board, e, k + 1)

FirstCell(board, e) == ScanFrom(board, e, 0)

RECURSIVE CountLoop(_, _, _, _, _, _)
RECURSIVE countSolutions(_, _)

\* The loop `for (num = 1; num <= 9; num++)` of countSolutions at the empty
\* cell (row, col), entered with the running `count`.  `copy` is the grid
\* handed to the recursive call (filled with num placed, 0 mapped to null)
\* and c2 is `count` after `count += countSolutions(...)`; each is a value
\* computed once, which is written as the element of a one-element set.
CountLoop(board, row, col, num, count, limit) ==
  IF num > N THEN count
  ELSE IF isValid(board, row, col, num)
       THEN CHOOSE out \in
              { IF c2 >= limit THEN c2
                ELSE CountLoop(board, row, col, num + 1, c2, limit) :
                  c2 \in { count + countSolutions(copy, limit - count) :
                             copy \in { ZeroToNull([board EXCEPT ![row][col] = num]) } } } : TRUE
       ELSE CountLoop(board, row, col, num + 1, count, limit)

\* countSolutions(board, limit)
countSolutions(board, limit) ==
  LET k == FirstCell(board, NULL)
  IN  IF k = NumCells THEN 1
      ELSE CountLoop(board, k \div N, k % N, 1, 0, limit)

RECURSIVE SolveLoop(_, _, _, _)
RECURSIVE solve(_)

\* The loop over num of the closure solve() at the empty cell (row, col);
\* b is the closure's shared grid.  The result is [ok, b].  `placed`
\* is b after `b[row][col] = num` and res is the result of the recursive
\* call; each is a value computed once (the element of a one-element set).
SolveLoop(b, row, col, num) ==
  IF num > N THEN [ok |-> FALSE, b |-> b]
  ELSE IF isValid(NullToZero(b), row, col, num)
       THEN CHOOSE out \in
              { IF res.ok THEN res
                ELSE SolveLoop([res.b EXCEPT ![row][col] = NULL], row, col, num + 1) :
                  res \in { solve(placed) :
                              placed \in { [b EXCEPT ![row][col] = num] } } } : TRUE
       ELSE SolveLoop(b, row, col, num + 1)

\* The closure solve() of solvePuzzle.
solve(b) ==
  LET k == FirstCell(b, NULL)
  IN  IF k = NumCells THEN [ok |-> TRUE, b |-> b]
      ELSE SolveLoop(b, k \div N, k % N, 1)

\* solvePuzzle returning its argument instead of the closure's grid b.
solvePuzzleReturnsInput(board) ==
  LET res == solve(board)
  IN  IF res.ok THEN board ELSE NoBoard

\* solvePuzzle(board): the solved grid, or null.
solvePuzzle(board) ==
  LET res == solve(board)
  IN  IF res.ok THEN res.b ELSE NoBoard

\* Math.random() as the k-th number of the tape, and the index
\* Math.floor(Math.random() * (i + 1)) computed from it.
RandomIndex(tape, k, i) == (tape[(k % TapeLen) + 1] * (i + 1)) \div RandRes

RECURSIVE ShuffleLoopNoSwap(_, _, _, _)

\* shuffle's loop with `a[i] = a[j]` in place of the swap.
ShuffleLoopNoSwap(a, i, tape, k) ==
  IF i <= 0 THEN a
  ELSE LET j == RandomIndex(tape, k, i)
       IN  ShuffleLoopNoSwap([a EXCEPT ![i + 1] = a[j + 1]], i - 1, tape, k + 1)

RECURSIVE ShuffleLoop(_, _, _, _)

\* The loop of shuffle for i down to 1 (a is indexed from 1 here, so the
\* source's a[i] is a[i + 1]); k counts the calls of Math.random().
ShuffleLoop(a, i, tape, k) ==
  IF i <= 0 THEN a
  ELSE LET j == RandomIndex(tape, k, i)
       IN  ShuffleLoop([a EXCEPT ![i + 1] = a[j + 1], ![j + 1] = a[i + 1]],
                       i - 1, tape, k + 1)

\* shuffle(arr), drawing from the tape at position k.
shuffle(arr, tape, k) == ShuffleLoop(arr, Len(arr) - 1, tape, k)

\* The default value of countSolutions' parameter `limit`.
DefaultLimit == 2

(***************************************************************************)
(* generatePuzzle as a process.  fillBoard's recursion is kept on an       *)
(* explicit stack: one frame per activation that found an empty cell,      *)
(* holding that cell, its shuffled digits and the position i of the        *)
(* for-of loop.  Math.random() reads a tape that is an input of the run.   *)
(***************************************************************************)
VARIABLES
  difficulty,   \* generatePuzzle's argument
  tape,         \* the numbers Math.random() returns, read cyclically
  rcalls,       \* number of calls of Math.random() so far, modulo TapeLen
  pc,           \* position of the process
  solution,     \* generatePuzzle's `solution` (0 = not filled yet)
  fstack,       \* activations of fillBoard that are inside their loop
  fret,         \* value returned by the fillBoard call that returned last
  fillRoot,     \* value returned by the root call fillBoard(solution)
  puzzle,       \* generatePuzzle's `puzzle`
  cells,        \* the shuffled coordinates
  ci,           \* position of the carving loop in cells (from 1)
  removed,      \* generatePuzzle's `removed`
  solved,       \* solvePuzzle(puzzle) of the returned puzzle
  grid,         \* a grid handed to the exported functions
  result,       \* the last call of an exported function on grid
  heap,         \* the grid objects alive in a call: reference |-> contents
  mstack,       \* activations of countSolutions / solve inside their loop
  mpc,          \* position of the call that runs on the heap
  marg,         \* argument of the activation being entered
  mret,         \* value returned by the activation that returned last
  board,        \* SudokuGame state: the play board
  initialBoard, \* SudokuGame state: the puzzle as generated
  solutionState,\* SudokuGame state `solution`
  selectedCell, \* SudokuGame state: <<r, c>> or NoCell
  conflicts,    \* SudokuGame state: set of keys
  isComplete,   \* SudokuGame state
  timerRunning, \* SudokuGame state
  timerReset,   \* SudokuGame state
  mistakes,     \* SudokuGame state
  notes,        \* SudokuGame state: the keys present and their digits
  noteMode,     \* SudokuGame state
  history,      \* SudokuGame state: sequence of boards
  showComplete, \* SudokuGame state
  timeouts,     \* pending setTimeout callbacks of newGame
  moves         \* handler invocations so far

genVars == <<difficulty, tape, rcalls, pc, solution, fstack, fret, fillRoot,
             puzzle, cells, ci, removed, solved>>
fnVars == <<grid, result>>
memVars == <<heap, mstack, mpc, marg, mret>>
gameVars == <<board, initialBoard, solutionState, selectedCell, conflicts,
              isComplete, timerRunning, timerReset, mistakes, notes, noteMode,
              history, showComplete, timeouts, moves>>
vars == <<genVars, fnVars, memVars, gameVars>>

NoResult == [op |-> "none"]

\* selectedCell === null
NoCell == <<>>

\* useState<Record<string, Set<number>>>({}): no key present.
NoNotes == [keys |-> {}, marks |-> {}]

\* No call runs on the heap.
MemIdle ==
  /\ heap = <<>>
  /\ mstack = <<>>
  /\ mpc = "idle"
  /\ marg = [ref |-> 0, limit |-> 0]
  /\ mret = 0

\* The useState initial values of SudokuGame.
GameIdle ==
  /\ board = <<>>
  /\ initialBoard = <<>>
  /\ solutionState = <<>>
  /\ selectedCell = NoCell
  /\ conflicts = {}
  /\ isComplete = FALSE
  /\ timerRunning = FALSE
  /\ timerReset = FALSE
  /\ mistakes = 0
  /\ notes = NoNotes
  /\ noteMode = FALSE
  /\ history = <<>>
  /\ showComplete = FALSE
  /\ timeouts = 0
  /\ moves = 0

\* Array.from({length: 81}, (_, i) => [Math.floor(i / 9), i % 9])
Coordinates == [i \in 1 .. NumCells |-> <<(i - 1) \div N, (i - 1) % N>>]

\* [1, 2, 3, 4, 5, 6, 7, 8, 9]
DigitList == [i \in 1 .. N |-> i]

InitGen ==
  /\ difficulty \in Difficulty
  /\ tape \in [1 .. TapeLen -> 0 .. (RandRes - 1)]
  /\ rcalls = 0
  /\ pc = "fill_call"
  /\ solution = ConstGrid(0)
  /\ fstack = <<>>
  /\ fret = FALSE
  /\ fillRoot = FALSE
  /\ puzzle = <<>>
  /\ cells = <<>>
  /\ ci = 1
  /\ removed = 0
  /\ solved = NoBoard
  /\ grid = ConstGrid(NULL)
  /\ result = NoResult
  /\ MemIdle
  /\ GameIdle

\* Entry of fillBoard(board): the scan for the first cell equal to 0, then
\* either `return true` or the shuffle of the digits for that cell.
FillEnter ==
  /\ pc = "fill_call"
  /\ LET k == FirstCell(solution, 0)
     IN  IF k = NumCells
         THEN /\ fret' = TRUE
              /\ pc' = "fill_ret"
              /\ UNCHANGED <<fstack, rcalls>>
         ELSE /\ fstack' = Append(fstack,
                             [row |-> k \div N, col |-> k % N,
                              nums |-> shuffle(DigitList, tape, rcalls), i |-> 1])
              /\ rcalls' = (rcalls + N - 1) % TapeLen
              /\ pc' = "fill_loop"
              /\ fret' = fret
  /\ UNCHANGED <<difficulty, tape, solution, fillRoot, puzzle, cells, ci,
                 removed, solved, fnVars, memVars, gameVars>>

\* One iteration of `for (const num of nums)` in the innermost activation:
\* place a valid digit and call fillBoard, skip an invalid one, or
\* `return false` when the digits are used up.
FillTry ==
  /\ pc = "fill_loop"
  /\ LET d == Len(fstack)
         f == fstack[d]
     IN  IF f.i > Len(f.nums)
         THEN /\ fstack' = SubSeq(fstack, 1, d - 1)
              /\ fret' = FALSE
              /\ pc' = "fill_ret"
              /\ solution' = solution
         ELSE IF isValid(solution, f.row, f.col, f.nums[f.i])
              THEN /\ solution' = [solution EXCEPT ![f.row][f.col] = f.nums[f.i]]
                   /\ pc' = "fill_call"
                   /\ UNCHANGED <<fstack, fret>>
              ELSE /\ fstack' = [fstack EXCEPT ![d].i = f.i + 1]
                   /\ UNCHANGED <<solution, fret, pc>>
  /\ UNCHANGED <<difficulty, tape, rcalls, fillRoot, puzzle, cells, ci,
                 removed, solved, fnVars, memVars, gameVars>>

\* A recursive call returns to `if (fillBoard(board)) return true;` of its
\* caller: the caller returns true, or clears the cell and goes on.
FillReturn ==
  /\ pc = "fill_ret"
  /\ fstack # <<>>
  /\ LET d == Len(fstack)
         f == fstack[d]
     IN  IF fret
         THEN /\ fstack' = SubSeq(fstack, 1, d - 1)
              /\ UNCHANGED <<solution, pc, fret>>
         ELSE /\ solution' = [solution EXCEPT ![f.row][f.col] = 0]
              /\ fstack' = [fstack EXCEPT ![d].i = f.i + 1]
              /\ pc' = "fill_loop"
              /\ fret' = fret
  /\ UNCHANGED <<difficulty, tape, rcalls, fillRoot, puzzle, cells, ci,
                 removed, solved, fnVars, memVars, gameVars>>

\* The root call returns to generatePuzzle (its value is not looked at);
\* the puzzle is copied from the solution and the coordinates are shuffled.
CarveSetup ==
  /\ pc = "fill_ret"
  /\ fstack = <<>>
  /\ fillRoot' = fret
  /\ puzzle' = solution
  /\ cells' = shuffle(Coordinates, tape, rcalls)
  /\ rcalls' = (rcalls + NumCells - 1) % TapeLen
  /\ removed' = 0
  /\ ci' = 1
  /\ pc' = "carve"
  /\ UNCHANGED <<difficulty, tape, solution, fstack, fret, solved, fnVars, memVars, gameVars>>

\* The target off by one (one more cell to blank).
CarveTargetOffByOne(d) == NumCells - DIFFICULTY_CLUES[d] + 1

\* const target = 81 - clues
CarveTarget(d) == NumCells - DIFFICULTY_CLUES[d]

\* The test written `=== 0`: a removal with several completions is kept.
RestoresOnlyUnsolvable(testBoard) == countSolutions(testBoard, DefaultLimit) = 0

\* The test `countSolutions(testBoard) !== 1` that restores the cell.
Restores(testBoard) == countSolutions(testBoard, DefaultLimit) # 1

\* One iteration of `for (const [row, col] of cells)`, or the end of the
\* loop (coordinates used up, or `break`) and the return.
CarveStep ==
  /\ pc = "carve"
  /\ IF ci > Len(cells) \/ removed >= CarveTarget(difficulty)
     THEN /\ pc' = "done"
          /\ UNCHANGED <<puzzle, removed, ci>>
     ELSE LET row == cells[ci][1]
              col == cells[ci][2]
              backup == puzzle[row][col]
              testBoard == [puzzle EXCEPT ![row][col] = NULL]
          IN  /\ IF Restores(testBoard)
                 THEN /\ puzzle' = [testBoard EXCEPT ![row][col] = backup]
                      /\ removed' = removed
                 ELSE /\ puzzle' = testBoard
                      /\ removed' = removed + 1
              /\ ci' = ci + 1
              /\ pc' = pc
  /\ UNCHANGED <<difficulty, tape, rcalls, solution, fstack, fret, fillRoot,
                 cells, solved, fnVars, memVars, gameVars>>

\* The caller hands the returned puzzle to solvePuzzle.
SolveReturned ==
  /\ pc = "done"
  /\ solved' = solvePuzzle(puzzle)
  /\ pc' = "solved"
  /\ UNCHANGED <<difficulty, tape, rcalls, solution, fstack, fret, fillRoot,
                 puzzle, cells, ci, removed, fnVars, memVars, gameVars>>

NextGen ==
  \/ FillEnter
  \/ FillTry
  \/ FillReturn
  \/ CarveSetup
  \/ CarveStep
  \/ SolveReturned

SpecGen == InitGen /\ [][NextGen]_vars

(***************************************************************************)
(* What the claims speak of: valid Solutions and the completions of a      *)
(* grid, defined from the rules of the game and not from the code.         *)
(***************************************************************************)
RowCells(r) == { <<r, c>> : c \in Idx }
ColCells(c) == { <<r, c>> : r \in Idx }
BoxCells(br, bc) == { x \in Cells : x[1] \div Box = br /\ x[2] \div Box = bc }
Units ==
  { RowCells(r) : r \in Idx } \cup { ColCells(c) : c \in Idx }
    \cup { BoxCells(x[1], x[2]) : x \in (0 .. (Box - 1)) \X (0 .. (Box - 1)) }

\* g is fully filled and every row, column and box is a permutation of 1..N.
IsSolution(g) == \A u \in Units : { g[x[1]][x[2]] : x \in u } = Digits

\* The rows that are permutations of 1..N.
PermRows == { p \in [Idx -> Digits] : \A a, b \in Idx : a # b => p[a] # p[b] }

\* Row p can follow the rows of g (rows 0..r-1) as row r.
RowFits(g, r, p) ==
  \A i \in 0 .. (r - 1) :
    /\ \A c \in Idx : g[i][c] # p[c]
    /\ (i \div Box = r \div Box) =>
         \A c, d \in Idx : (c \div Box = d \div Box) => g[i][c] # p[d]

RECURSIVE RowsUpTo(_)

\* The fillings of rows 0..r without a duplicate in a column or box.
RowsUpTo(r) ==
  IF r = 0 THEN { [i \in {0} |-> p] : p \in PermRows }
  ELSE { [i \in 0 .. r |-> IF i = r THEN x[2] ELSE x[1][i]] :
           x \in { y \in RowsUpTo(r - 1) \X PermRows : RowFits(y[1], r, y[2]) } }

\* Every valid Solution.
AllSolutions == { g \in RowsUpTo(N - 1) : IsSolution(g) }

\* The valid Solutions that agree with g on each of its filled cells.
Completions(g) ==
  { s \in AllSolutions :
      \A r \in Idx : \A c \in Idx : g[r][c] \in Digits => s[r][c] = g[r][c] }

\* Number of cells of g that hold a digit.
ClueCount(g) == Cardinality({ x \in Cells : g[x[1]][x[2]] \in Digits })

Generated == pc \in {"carve", "done", "solved"}

\* C1: after every iteration of the carving loop, and on return, the puzzle
\* has exactly one completion that is a valid Solution, and it is the
\* solution returned with it.
C1_UniqueCompletion == Generated => Completions(puzzle) = {solution}

\* A returned puzzle for which removals were kept and removals were restored.
C1_Witness == pc = "done" /\ removed > 0 /\ ci - 1 > removed

\* C2: the returned solution is fully filled and each of its rows, columns
\* and boxes is a permutation of 1..N.
C2_SolutionValid == Generated => IsSolution(solution)

C2_Witness == pc = "done" /\ fillRoot /\ solution \in AllSolutions

\* C3: the puzzle never has fewer filled cells than the clue target of its
\* difficulty (removed never exceeds the cells to blank), and each filled
\* cell of the puzzle holds the solution's value.
C3_ClueTarget ==
  Generated =>
    /\ ClueCount(puzzle) >= DIFFICULTY_CLUES[difficulty]
    /\ removed <= CarveTarget(difficulty)
    /\ ClueCount(puzzle) = NumCells - removed
    /\ \A r \in Idx : \A c \in Idx :
         puzzle[r][c] # NULL => puzzle[r][c] = solution[r][c]

\* A returned puzzle with exactly the target number of clues.
C3_Witness ==
  pc = "done" /\ ClueCount(puzzle) = DIFFICULTY_CLUES[difficulty] /\ removed > 0

\* C4: solvePuzzle applied to a returned puzzle does not fail and returns
\* the returned solution, cell for cell.
C4_SolveReturnsSolution ==
  pc = "solved" =>
    /\ solved # NoBoard
    /\ \A r \in Idx : \A c \in Idx : solved[r][c] = solution[r][c]

C4_Witness == pc = "solved" /\ solved # NoBoard /\ ClueCount(puzzle) < NumCells

\* The coordinates the carving loop has visited so far are all different.
VisitedOnce ==
  \A i, j \in 1 .. (ci - 1) : i # j => cells[i] # cells[j]

\* The place of a state in the run, as a sequence that is compared
\* lexicographically: the phase, then for fillBoard one number per
\* activation (twice its loop position, plus one once its digit is placed
\* and the recursive call is made), then a mark for the call in flight
\* (0 when entered, ReturnedMark when it has returned), then the position
\* of the carving loop.
ReturnedMark == 2 * (N + 1) + 2

PhaseNo ==
  CASE pc \in {"fill_call", "fill_loop", "fill_ret"} -> 0
    [] pc = "carve" -> 1
    [] pc = "done" -> 2
    [] pc = "solved" -> 3

ProgressKey ==
  LET d == Len(fstack)
      frames == [x \in 1 .. d |->
                   2 * fstack[x].i + (IF x < d \/ pc # "fill_loop" THEN 1 ELSE 0)]
      mark == IF pc = "fill_ret" THEN ReturnedMark ELSE 0
  IN  <<PhaseNo>> \o frames \o <<mark>>
        \o [x \in 1 .. (NumCells - d) |-> 0] \o <<ci>>

\* s comes before t in the lexicographic order (s and t of equal length).
LexLess(s, t) ==
  \E x \in 1 .. Len(s) :
    /\ s[x] < t[x]
    /\ \A y \in 1 .. (x - 1) : s[y] = t[y]

\* Every ProgressKey is a sequence of NumCells + 3 numbers in a finite range,
\* so a run along which it grows at every step is finite.
KeyBounded ==
  /\ Len(ProgressKey) = NumCells + 3
  /\ \A x \in 1 .. (NumCells + 2) : ProgressKey[x] \in 0 .. ReturnedMark
  /\ ci \in 1 .. (NumCells + 1)
  /\ \A x \in 1 .. Len(fstack) : fstack[x].i \in 1 .. (N + 1)

\* A state before the return of generatePuzzle has a step to take: each
\* position has an action, and FillTry finds the activation it works on.
NotStuck ==
  /\ pc \in {"fill_call", "fill_loop", "fill_ret", "carve", "done", "solved"}
  /\ pc = "fill_loop" => fstack # <<>>

\* C10: generatePuzzle never fails: the root call of fillBoard returns true
\* (a fillBoard call returns false only to a caller inside fillBoard), the
\* carving loop visits no coordinate twice, and generatePuzzle terminates
\* with a return: every step moves the run forward in a finite order and
\* no state before the return is without a step.
C10_NeverFails ==
  /\ [](Generated => fillRoot)
  /\ []((pc = "fill_ret" /\ ~fret) => fstack # <<>>)
  /\ [](Generated => VisitedOnce)
  /\ [](KeyBounded /\ NotStuck)
  /\ [][LexLess(ProgressKey, ProgressKey')]_vars

\* A run that returned after the carving loop went through every coordinate.
C10_Witness == pc = "done" /\ fillRoot /\ ci = NumCells + 1

(***************************************************************************)
(* The exported functions applied to grids handed in by a caller.          *)
(***************************************************************************)

\* Most cells filled in a sparse input grid.
MaxFilled == 2

\* Most cells changed in a valid Solution to make an input grid.
MaxEdits == 1

\* Largest `limit` handed to countSolutions.
MaxLimit == 3

\* The sets of at most k cells.
CellSets(k) == { S \in SUBSET Cells : Cardinality(S) <= k }

\* Grid g with the cells of S set to the values of f.
Overwrite(g, S, f) ==
  [r \in Idx |-> [c \in Idx |-> IF <<r, c>> \in S THEN f[<<r, c>>] ELSE g[r][c]]]

\* The valid Solutions whose first row is 1, 2, ..., N.
SeedSolutions == { s \in AllSolutions : \A c \in Idx : s[0][c] = c + 1 }

\* out is g with at most k cells set to values of vals.
EditedFrom(g, k, vals, out) ==
  \E S \in CellSets(k) : \E f \in [S -> vals] : out = Overwrite(g, S, f)

\* out has at most MaxFilled filled cells, holding any digits.
SparseGrid(out) == EditedFrom(ConstGrid(NULL), MaxFilled, Digits, out)

\* out is a seed Solution with at most MaxEdits cells set to a digit or null.
EditedSolution(out) ==
  \E s \in SeedSolutions : EditedFrom(s, MaxEdits, Digits \cup {NULL}, out)

\* out's only filled cells are two equal digits in one row.
TwoEqualInRowGrid(out) ==
  \E r \in Idx : \E c1, c2 \in Idx : \E v \in Digits :
    /\ c1 < c2
    /\ out = [ConstGrid(NULL) EXCEPT ![r][c1] = v, ![r][c2] = v]

\* The variables of generatePuzzle, which the calls below leave alone.
GenIdle ==
  /\ difficulty = "easy"
  /\ tape = [i \in 1 .. TapeLen |-> 0]
  /\ rcalls = 0
  /\ pc = "idle"
  /\ solution = ConstGrid(0)
  /\ fstack = <<>>
  /\ fret = FALSE
  /\ fillRoot = FALSE
  /\ puzzle = <<>>
  /\ cells = <<>>
  /\ ci = 1
  /\ removed = 0
  /\ solved = NoBoard

\* Grids handed to solvePuzzle and countSolutions.
InitSolve ==
  /\ \/ EditedSolution(grid)
     \/ TwoEqualInRowGrid(grid)
     \/ grid = ConstGrid(NULL)
  /\ result = NoResult
  /\ GenIdle
  /\ MemIdle
  /\ GameIdle

\* solvePuzzle(grid)
CallSolve ==
  /\ result = NoResult
  /\ result' = [op |-> "solvePuzzle", out |-> solvePuzzle(grid)]
  /\ UNCHANGED <<grid, genVars, memVars, gameVars>>

\* countSolutions(grid, limit)
CallCount ==
  /\ result = NoResult
  /\ \E limit \in 1 .. MaxLimit :
       result' = [op |-> "countSolutions", limit |-> limit,
                  out |-> countSolutions(grid, limit)]
  /\ UNCHANGED <<grid, genVars, memVars, gameVars>>

NextSolve ==
  \/ CallSolve
  \/ CallCount

SpecSolve == InitSolve /\ [][NextSolve]_vars

\* Grids handed to getConflicts and isValidPlacement.
InitCheck ==
  /\ \/ SparseGrid(grid)
     \/ EditedSolution(grid)
  /\ result = NoResult
  /\ GenIdle
  /\ MemIdle
  /\ GameIdle

\* getConflicts(grid)
CallConflicts ==
  /\ result = NoResult
  /\ result' = [op |-> "getConflicts", out |-> getConflicts(grid)]
  /\ UNCHANGED <<grid, genVars, memVars, gameVars>>

\* isValidPlacement(grid, r, c, v) for each coordinate and digit.
CallIsValidPlacement ==
  /\ result = NoResult
  /\ result' = [op |-> "isValidPlacement",
                out |-> [x \in Cells \X Digits |->
                           isValidPlacement(grid, x[1][1], x[1][2], x[2])]]
  /\ UNCHANGED <<grid, genVars, memVars, gameVars>>

NextCheck ==
  \/ CallConflicts
  \/ CallIsValidPlacement

SpecCheck == InitCheck /\ [][NextCheck]_vars

Min(a, b) == IF a <= b THEN a ELSE b

\* The cells other than x that share a row, a column or a box with x.
Peers(x) == UNION { u \in Units : x \in u } \ {x}

\* Some filled cells of g that share a row, column or box hold one digit.
HasDuplicate(g) ==
  \E x \in Cells : g[x[1]][x[2]] \in Digits /\
    \E y \in Peers(x) : g[y[1]][y[2]] = g[x[1]][x[2]]

\* C5: solvePuzzle returns null when no valid Solution extends the grid,
\* and otherwise a valid Solution that agrees with the grid's filled cells
\* (for every grid, full grids and grids with duplicates included).
C5_SolveContract ==
  result.op = "solvePuzzle" =>
    IF Completions(grid) = {} THEN result.out = NoBoard
    ELSE result.out \in Completions(grid)

TwoEqualInRow(g) ==
  \E r \in Idx : \E c1, c2 \in Idx : \E v \in Digits :
    /\ c1 # c2
    /\ \A x \in Cells :
         g[x[1]][x[2]] = IF x[1] = r /\ x[2] \in {c1, c2} THEN v ELSE NULL

\* C7: on a grid whose only filled cells are two equal digits in one row,
\* countSolutions returns 0 and solvePuzzle returns null.
C7_TwoEqualInRow ==
  TwoEqualInRow(grid) =>
    /\ result.op = "countSolutions" => result.out = 0
    /\ result.op = "solvePuzzle" => result.out = NoBoard

\* solvePuzzle has failed on two equal digits that share a row but no box.
C7_Witness ==
  /\ result.op = "solvePuzzle"
  /\ result.out = NoBoard
  /\ grid = [ConstGrid(NULL) EXCEPT ![0][0] = 3, ![0][N - 1] = 3]

\* The filled cells of g whose digit is also in another cell of their row,
\* column or box.
ConflictCells(g) ==
  { x \in Cells : g[x[1]][x[2]] \in Digits /\
      \E y \in Peers(x) : g[y[1]][y[2]] = g[x[1]][x[2]] }

\* C8: getConflicts returns the keys of exactly the filled cells whose digit
\* is also in another cell of their row, column or box (different cells
\* have different keys); so nothing for a valid Solution.
C8_ConflictsExact ==
  result.op = "getConflicts" =>
    /\ result.out = { Key(x[1], x[2]) : x \in ConflictCells(grid) }
    /\ Cardinality(result.out) = Cardinality(ConflictCells(grid))
    /\ grid \in AllSolutions => result.out = {}

\* getConflicts has returned the two cells of a row that hold one digit.
C8_Witness ==
  /\ result.op = "getConflicts"
  /\ grid = [ConstGrid(NULL) EXCEPT ![1][0] = 4, ![1][N - 1] = 4]
  /\ result.out = { Key(1, 0), Key(1, N - 1) }

\* C9: isValidPlacement(grid, r, c, v) is true exactly when no cell other
\* than (r, c) in its row, column or box holds v, whatever (r, c) holds.
C9_PlacementExact ==
  result.op = "isValidPlacement" =>
    \A x \in Cells : \A v \in Digits :
      /\ result.out[<<x, v>>] = (\A y \in Peers(x) : grid[y[1]][y[2]] # v)
      /\ \A w \in Digits \cup {NULL} :
           isValidPlacement([grid EXCEPT ![x[1]][x[2]] = w], x[1], x[2], v)
             = result.out[<<x, v>>]

\* isValidPlacement has accepted the digit a cell holds, and rejected it for
\* another cell because of that cell.
C9_Witness ==
  /\ result.op = "isValidPlacement"
  /\ \E x \in Cells : \E y \in Peers(x) :
       /\ grid[x[1]][x[2]] \in Digits
       /\ result.out[<<x, grid[x[1]][x[2]]>>]
       /\ ~result.out[<<y, grid[x[1]][x[2]]>>]

(***************************************************************************)
(* countSolutions and solvePuzzle on a heap of grid objects.  A grid       *)
(* variable of the source holds a reference; heap maps each reference to   *)
(* the contents of its object, so that a write through one name is seen    *)
(* through every name of the same object.  Reference 1 is the caller's     *)
(* grid.  An activation's objects are dropped when it returns.             *)
(***************************************************************************)

\* The copy left out: the new name refers to the object of src.
CopyBoardAlias(h, src) == [heap |-> h, ref |-> src]

\* board.map((r) => [...r]): a new object with the contents of src.
CopyBoard(h, src) == [heap |-> Append(h, h[src]), ref |-> Len(h) + 1]

\* A frame of countSolutions or of solve(): the grid it works on, the first
\* empty cell, the loop variable num, and for countSolutions count and limit.
\* entry is the contents of the grid when the activation began, base the
\* number of objects alive then.
Frame(ref, k, limit) ==
  [board |-> ref, row |-> k \div N, col |-> k % N, num |-> 1, count |-> 0,
   limit |-> limit, entry |-> heap[ref], base |-> Len(heap)]

Pop(st) == SubSeq(st, 1, Len(st) - 1)

\* Grids handed to the two functions.
InitMem ==
  /\ \/ EditedSolution(grid)
     \/ TwoEqualInRowGrid(grid)
     \/ grid = ConstGrid(NULL)
  /\ result = NoResult
  /\ GenIdle
  /\ MemIdle
  /\ GameIdle

\* The caller calls countSolutions(grid, limit).
StartCount ==
  /\ mpc = "idle"
  /\ \E limit \in 1 .. MaxLimit :
       /\ marg' = [ref |-> 1, limit |-> limit]
       /\ result' = [op |-> "countSolutions", limit |-> limit, out |-> NULL]
  /\ heap' = <<grid>>
  /\ mpc' = "count_call"
  /\ UNCHANGED <<grid, mstack, mret, genVars, gameVars>>

\* Entry of countSolutions(board, limit): the scan for the first null cell,
\* then `return 1` or the start of the loop over num.
CountEnter ==
  /\ mpc = "count_call"
  /\ LET k == FirstCell(heap[marg.ref], NULL)
     IN  IF k = NumCells
         THEN /\ mret' = 1
              /\ mpc' = "count_ret"
              /\ mstack' = mstack
         ELSE /\ mstack' = Append(mstack, Frame(marg.ref, k, marg.limit))
              /\ mpc' = "count_loop"
              /\ mret' = mret
  /\ UNCHANGED <<heap, marg, grid, result, genVars, gameVars>>

\* One iteration of `for (let num = 1; num <= 9; num++)`: filled is a copy
\* of board; a valid digit is written into filled and countSolutions is
\* called on a mapped copy of filled.  After the loop, `return count`.
CountTry ==
  /\ mpc = "count_loop"
  /\ LET f == mstack[Len(mstack)]
     IN  IF f.num > N
         THEN /\ mstack' = Pop(mstack)
              /\ mret' = f.count
              /\ mpc' = "count_ret"
              /\ UNCHANGED <<heap, marg>>
         ELSE LET filled == CopyBoard(heap, f.board)
              IN  IF isValid(filled.heap[filled.ref], f.row, f.col, f.num)
                  THEN LET h2 == [filled.heap EXCEPT
                                    ![filled.ref][f.row][f.col] = f.num]
                           arg == CopyBoard(h2, filled.ref)
                       IN  /\ heap' = [arg.heap EXCEPT
                                         ![arg.ref] = ZeroToNull(@)]
                           /\ marg' = [ref |-> arg.ref,
                                       limit |-> f.limit - f.count]
                           /\ mpc' = "count_call"
                           /\ UNCHANGED <<mstack, mret>>
                  ELSE /\ heap' = SubSeq(filled.heap, 1, f.base)
                       /\ mstack' = [mstack EXCEPT ![Len(mstack)].num = f.num + 1]
                       /\ UNCHANGED <<marg, mret, mpc>>
  /\ UNCHANGED <<grid, result, genVars, gameVars>>

\* The recursive call returns to `count += countSolutions(...)`, followed by
\* `if (count >= limit) return count;`.
CountReturn ==
  /\ mpc = "count_ret"
  /\ mstack # <<>>
  /\ LET f == mstack[Len(mstack)]
         count == f.count + mret
     IN  /\ heap' = SubSeq(heap, 1, f.base)
         /\ IF count >= f.limit
            THEN /\ mstack' = Pop(mstack)
                 /\ mret' = count
                 /\ mpc' = mpc
            ELSE /\ mstack' = [mstack EXCEPT ![Len(mstack)].count = count,
                                             ![Len(mstack)].num = f.num + 1]
                 /\ mpc' = "count_loop"
                 /\ mret' = mret
  /\ UNCHANGED <<marg, grid, result, genVars, gameVars>>

\* The root call returns to the caller.
CountDone ==
  /\ mpc = "count_ret"
  /\ mstack = <<>>
  /\ result' = [result EXCEPT !.out = mret]
  /\ mpc' = "returned"
  /\ UNCHANGED <<heap, mstack, marg, mret, grid, genVars, gameVars>>

\* The caller calls solvePuzzle(grid): b is a copy of board, and solve() is
\* called.
StartSolve ==
  /\ mpc = "idle"
  /\ LET b == CopyBoard(<<grid>>, 1)
     IN  /\ heap' = b.heap
         /\ marg' = [ref |-> b.ref, limit |-> 0]
  /\ result' = [op |-> "solvePuzzle", out |-> NoBoard]
  /\ mpc' = "solve_call"
  /\ UNCHANGED <<grid, mstack, mret, genVars, gameVars>>

\* Entry of solve(): the scan of b for the first null cell, then
\* `return true` (mret = 1) or the start of the loop over num.
SolveEnter ==
  /\ mpc = "solve_call"
  /\ LET k == FirstCell(heap[marg.ref], NULL)
     IN  IF k = NumCells
         THEN /\ mret' = 1
              /\ mpc' = "solve_ret"
              /\ mstack' = mstack
         ELSE /\ mstack' = Append(mstack, Frame(marg.ref, k, 0))
              /\ mpc' = "solve_loop"
              /\ mret' = mret
  /\ UNCHANGED <<heap, marg, grid, result, genVars, gameVars>>

\* One iteration of the loop of solve(): a valid digit is written into b and
\* solve() is called.  After the loop, `return false` (mret = 0).
SolveTry ==
  /\ mpc = "solve_loop"
  /\ LET f == mstack[Len(mstack)]
     IN  IF f.num > N
         THEN /\ mstack' = Pop(mstack)
              /\ mret' = 0
              /\ mpc' = "solve_ret"
              /\ heap' = heap
         ELSE IF isValid(NullToZero(heap[f.board]), f.row, f.col, f.num)
              THEN /\ heap' = [heap EXCEPT ![f.board][f.row][f.col] = f.num]
                   /\ mpc' = "solve_call"
                   /\ UNCHANGED <<mstack, mret>>
              ELSE /\ mstack' = [mstack EXCEPT ![Len(mstack)].num = f.num + 1]
                   /\ UNCHANGED <<heap, mret, mpc>>
  /\ UNCHANGED <<marg, grid, result, genVars, gameVars>>

\* solve() returns to `if (solve()) return true;` followed by
\* `b[row][col] = null;`.
SolveReturn ==
  /\ mpc = "solve_ret"
  /\ mstack # <<>>
  /\ LET f == mstack[Len(mstack)]
     IN  IF mret = 1
         THEN /\ mstack' = Pop(mstack)
              /\ UNCHANGED <<heap, mpc>>
         ELSE /\ heap' = [heap EXCEPT ![f.board][f.row][f.col] = NULL]
              /\ mstack' = [mstack EXCEPT ![Len(mstack)].num = f.num + 1]
              /\ mpc' = "solve_loop"
  /\ UNCHANGED <<mret, marg, grid, result, genVars, gameVars>>

\* return solve() ? b : null
SolveDone ==
  /\ mpc = "solve_ret"
  /\ mstack = <<>>
  /\ result' = [result EXCEPT
                  !.out = IF mret = 1 THEN heap[marg.ref] ELSE NoBoard]
  /\ mpc' = "returned"
  /\ UNCHANGED <<heap, mstack, marg, mret, grid, genVars, gameVars>>

NextMem ==
  \/ StartCount
  \/ CountEnter
  \/ CountTry
  \/ CountReturn
  \/ CountDone
  \/ StartSolve
  \/ SolveEnter
  \/ SolveTry
  \/ SolveReturn
  \/ SolveDone

SpecMem == InitMem /\ [][NextMem]_vars

\* C11: solvePuzzle and countSolutions leave the caller's grid (object 1)
\* unchanged in every cell at every point of the call and at its return,
\* on success and on failure; and in countSolutions the grid of every
\* activation still has, whenever a candidate digit is examined or a
\* branch runs, the contents it had at the activation's entry, so that no
\* placement of one branch is seen by a sibling branch.
C11_InputUntouched ==
  mpc # "idle" =>
    /\ heap[1] = grid
    /\ result.op = "countSolutions" =>
         \A i \in 1 .. Len(mstack) : heap[mstack[i].board] = mstack[i].entry

\* A later candidate digit of the root cell is examined after the branch of
\* an earlier digit has found a completion.
C11_Witness ==
  /\ mpc = "count_loop"
  /\ Len(mstack) = 1
  /\ mstack[1].num > 1
  /\ mstack[1].count >= 1
  /\ heap[1] = grid

\* The stepwise calls return what the functions return.
MemAgrees ==
  mpc = "returned" =>
    IF result.op = "countSolutions"
    THEN result.out = countSolutions(grid, result.limit)
    ELSE result.out = solvePuzzle(grid)

(***************************************************************************)
(* The SudokuGame component.  A handler runs to completion before the      *)
(* next one starts, so each handler is one action; newGame is the call of  *)
(* generatePuzzle (the process above) followed by NewGameCommit.  While    *)
(* generatePuzzle runs nothing can look at the component's state, and      *)
(* newGame then overwrites every piece of it, so the model drops the       *)
(* state of the finished game when generatePuzzle is called.  A handler    *)
(* that returns at once without a state update is a disabled action.       *)
(***************************************************************************)

\* Most handler invocations in a run.
MaxMoves == 4

\* The sequences Math.random() returns in the runs of the component: one
\* number repeated.
GameTapes ==
  { [i \in 1 .. TapeLen |-> v] : v \in 0 .. (RandRes - 1) }

\* The keys of the row, the column and the box of (r, c).
RelatedKeys(r, c) ==
  { Key(r, i) : i \in Idx } \cup { Key(i, c) : i \in Idx } \cup
  { Key(rr, cc) : rr \in BoxOrigin(r) .. (BoxOrigin(r) + Box - 1),
                  cc \in BoxOrigin(c) .. (BoxOrigin(c) + Box - 1) }

\* The digits noted under key k.
NotesOf(k) == { n \in Digits : <<k, n>> \in notes.marks }

\* The component is mounted: the useState values, and the effect's call
\* newGame(difficulty) has called generatePuzzle.
InitGame ==
  /\ difficulty = "medium"
  /\ tape \in GameTapes
  /\ rcalls = 0
  /\ pc = "fill_call"
  /\ solution = ConstGrid(0)
  /\ fstack = <<>>
  /\ fret = FALSE
  /\ fillRoot = FALSE
  /\ puzzle = <<>>
  /\ cells = <<>>
  /\ ci = 1
  /\ removed = 0
  /\ solved = NoBoard
  /\ grid = ConstGrid(NULL)
  /\ result = NoResult
  /\ MemIdle
  /\ GameIdle

\* A handler can be invoked: the board is rendered and the run goes on.
Playing == pc = "play" /\ moves < MaxMoves

\* The same guard without the test of initialBoard.
EditableSelectionAnyCell ==
  /\ selectedCell # NoCell
  /\ ~isComplete

\* Guard of placeNumber, erase and hint: a cell is selected, the game is
\* not complete and the cell is not a given clue.
EditableSelection ==
  /\ selectedCell # NoCell
  /\ ~isComplete
  /\ initialBoard[selectedCell[1]][selectedCell[2]] = NULL

\* newGame(diff) up to the call of generatePuzzle(diff); the difficulty
\* buttons (setDifficulty(d); newGame(d)), New and Play Again.
NewGameStart ==
  /\ Playing
  /\ \E d \in Difficulty : difficulty' = d
  /\ pc' = "fill_call"
  /\ solution' = ConstGrid(0)
  /\ fstack' = <<>>
  /\ fret' = FALSE
  /\ fillRoot' = FALSE
  /\ puzzle' = <<>>
  /\ cells' = <<>>
  /\ ci' = 1
  /\ removed' = 0
  /\ board' = <<>>
  /\ initialBoard' = <<>>
  /\ solutionState' = <<>>
  /\ selectedCell' = NoCell
  /\ conflicts' = {}
  /\ isComplete' = FALSE
  /\ timerRunning' = FALSE
  /\ mistakes' = 0
  /\ notes' = NoNotes
  /\ noteMode' = FALSE
  /\ history' = <<>>
  /\ showComplete' = FALSE
  /\ moves' = moves + 1
  /\ UNCHANGED <<tape, rcalls, solved, timerReset, timeouts, fnVars, memVars>>

\* newGame after generatePuzzle has returned: every state update of it.
NewGameCommit ==
  /\ pc = "done"
  /\ board' = puzzle
  /\ initialBoard' = puzzle
  /\ solutionState' = solution
  /\ selectedCell' = NoCell
  /\ conflicts' = {}
  /\ isComplete' = FALSE
  /\ timerRunning' = TRUE
  /\ timerReset' = TRUE
  /\ timeouts' = timeouts + 1
  /\ mistakes' = 0
  /\ notes' = NoNotes
  /\ noteMode' = FALSE
  /\ history' = <<>>
  /\ showComplete' = FALSE
  /\ pc' = "play"
  /\ UNCHANGED <<difficulty, tape, rcalls, solution, fstack, fret, fillRoot,
                 puzzle, cells, ci, removed, solved, moves, fnVars, memVars>>

\* setTimeout(() => setTimerReset(false), 50)
TimerResetExpire ==
  /\ timeouts > 0
  /\ pc = "play"
  /\ timerReset' = FALSE
  /\ timeouts' = timeouts - 1
  /\ UNCHANGED <<genVars, fnVars, memVars, board, initialBoard, solutionState,
                 selectedCell, conflicts, isComplete, timerRunning, mistakes,
                 notes, noteMode, history, showComplete, moves>>

\* onCellClick(r, c): select the cell, or unselect the selected one.
SelectCell ==
  /\ Playing
  /\ \E x \in Cells : selectedCell' = IF selectedCell = x THEN NoCell ELSE x
  /\ moves' = moves + 1
  /\ UNCHANGED <<genVars, fnVars, memVars, board, initialBoard, solutionState,
                 conflicts, isComplete, timerRunning, timerReset, mistakes,
                 notes, noteMode, history, showComplete, timeouts>>

\* The arrow keys: the selection moves by one cell and stops at the edge.
MoveSelection ==
  /\ Playing
  /\ selectedCell # NoCell
  /\ LET r == selectedCell[1]
         c == selectedCell[2]
     IN  \E to \in { <<IF r - 1 < 0 THEN 0 ELSE r - 1, c>>,
                     <<IF r + 1 > N - 1 THEN N - 1 ELSE r + 1, c>>,
                     <<r, IF c - 1 < 0 THEN 0 ELSE c - 1>>,
                     <<r, IF c + 1 > N - 1 THEN N - 1 ELSE c + 1>> } :
           /\ to # selectedCell
           /\ selectedCell' = to
  /\ moves' = moves + 1
  /\ UNCHANGED <<genVars, fnVars, memVars, board, initialBoard, solutionState,
                 conflicts, isComplete, timerRunning, timerReset, mistakes,
                 notes, noteMode, history, showComplete, timeouts>>

\* setNoteMode((m) => !m): the Notes button and the key n.
ToggleNoteMode ==
  /\ Playing
  /\ noteMode' = ~noteMode
  /\ moves' = moves + 1
  /\ UNCHANGED <<genVars, fnVars, memVars, board, initialBoard, solutionState,
                 selectedCell, conflicts, isComplete, timerRunning, timerReset,
                 mistakes, notes, history, showComplete, timeouts>>

\* placeNumber(num) in note mode: the digit is toggled in the cell's notes.
PlaceNote ==
  /\ Playing
  /\ EditableSelection
  /\ noteMode
  /\ \E num \in Digits :
       LET key == Key(selectedCell[1], selectedCell[2])
       IN  notes' = [keys |-> notes.keys \cup {key},
                     marks |-> IF <<key, num>> \in notes.marks
                               THEN notes.marks \ {<<key, num>>}
                               ELSE notes.marks \cup {<<key, num>>}]
  /\ moves' = moves + 1
  /\ UNCHANGED <<genVars, fnVars, memVars, board, initialBoard, solutionState,
                 selectedCell, conflicts, isComplete, timerRunning, timerReset,
                 mistakes, noteMode, history, showComplete, timeouts>>

\* placeNumber(num) outside note mode.
PlaceNumber ==
  /\ Playing
  /\ EditableSelection
  /\ ~noteMode
  /\ \E num \in Digits :
       LET r == selectedCell[1]
           c == selectedCell[2]
           newBoard == [board EXCEPT ![r][c] = IF @ = num THEN NULL ELSE num]
           done == isBoardComplete(newBoard, solutionState)
       IN  /\ history' = Append(history, board)
           /\ notes' = IF newBoard[r][c] # NULL
                       THEN [notes EXCEPT
                               !.marks = { m \in @ : ~(m[1] \in RelatedKeys(r, c)
                                                       /\ m[2] = num) }]
                       ELSE notes
           /\ conflicts' = getConflicts(newBoard)
           /\ mistakes' = IF newBoard[r][c] # NULL
                             /\ newBoard[r][c] # solutionState[r][c]
                          THEN mistakes + 1
                          ELSE mistakes
           /\ board' = newBoard
           /\ isComplete' = IF done THEN TRUE ELSE isComplete
           /\ timerRunning' = IF done THEN FALSE ELSE timerRunning
           /\ showComplete' = IF done THEN TRUE ELSE showComplete
  /\ moves' = moves + 1
  /\ UNCHANGED <<genVars, fnVars, memVars, initialBoard, solutionState,
                 selectedCell, timerReset, noteMode, timeouts>>

\* erase(): the cell's notes are cleared if it has any, otherwise the cell.
Erase ==
  /\ Playing
  /\ EditableSelection
  /\ LET r == selectedCell[1]
         c == selectedCell[2]
         key == Key(r, c)
     IN  IF NotesOf(key) # {}
         THEN /\ notes' = [keys |-> notes.keys \cup {key},
                           marks |-> { m \in notes.marks : m[1] # key }]
              /\ UNCHANGED <<board, history, conflicts>>
         ELSE /\ history' = Append(history, board)
              /\ board' = [board EXCEPT ![r][c] = NULL]
              /\ conflicts' = getConflicts([board EXCEPT ![r][c] = NULL])
              /\ notes' = notes
  /\ moves' = moves + 1
  /\ UNCHANGED <<genVars, fnVars, memVars, initialBoard, solutionState,
                 selectedCell, isComplete, timerRunning, timerReset, mistakes,
                 noteMode, showComplete, timeouts>>

\* undo(): the Undo button and Ctrl+Z.
Undo ==
  /\ Playing
  /\ history # <<>>
  /\ LET prev == history[Len(history)]
     IN  /\ history' = SubSeq(history, 1, Len(history) - 1)
         /\ board' = prev
         /\ conflicts' = getConflicts(prev)
  /\ moves' = moves + 1
  /\ UNCHANGED <<genVars, fnVars, memVars, initialBoard, solutionState,
                 selectedCell, isComplete, timerRunning, timerReset, mistakes,
                 notes, noteMode, showComplete, timeouts>>

\* hint(): the selected cell gets its value of the solution.
Hint ==
  /\ Playing
  /\ EditableSelection
  /\ LET r == selectedCell[1]
         c == selectedCell[2]
         newBoard == [board EXCEPT ![r][c] = solutionState[r][c]]
         done == isBoardComplete(newBoard, solutionState)
     IN  /\ history' = Append(history, board)
         /\ board' = newBoard
         /\ conflicts' = getConflicts(newBoard)
         /\ isComplete' = IF done THEN TRUE ELSE isComplete
         /\ timerRunning' = IF done THEN FALSE ELSE timerRunning
         /\ showComplete' = IF done THEN TRUE ELSE showComplete
  /\ moves' = moves + 1
  /\ UNCHANGED <<genVars, fnVars, memVars, initialBoard, solutionState,
                 selectedCell, timerReset, mistakes, notes, noteMode, timeouts>>

\* handleSolve(), from the Solve button (disabled when isComplete): a
\* solved board replaces the play board; null changes nothing.
HandleSolve ==
  /\ Playing
  /\ ~isComplete
  /\ \E s \in {solvePuzzle(board)} :
       /\ s # NoBoard
       /\ board' = s
  /\ conflicts' = {}
  /\ isComplete' = TRUE
  /\ timerRunning' = FALSE
  /\ moves' = moves + 1
  /\ UNCHANGED <<genVars, fnVars, memVars, initialBoard, solutionState,
                 selectedCell, timerReset, mistakes, notes, noteMode, history,
                 showComplete, timeouts>>

NextGame ==
  \/ FillEnter
  \/ FillTry
  \/ FillReturn
  \/ CarveSetup
  \/ CarveStep
  \/ NewGameCommit
  \/ NewGameStart
  \/ TimerResetExpire
  \/ SelectCell
  \/ MoveSelection
  \/ ToggleNoteMode
  \/ PlaceNote
  \/ PlaceNumber
  \/ Erase
  \/ Undo
  \/ Hint
  \/ HandleSolve

SpecGame == InitGame /\ [][NextGame]_vars

\* C12: whenever isComplete is true the play board equals the solution in
\* every cell.
C12_CompleteMeansSolved ==
  (pc = "play" /\ isComplete) => board = solutionState

\* C14: the stored conflicts set equals getConflicts of the play board.
C14_ConflictsCurrent ==
  pc = "play" => conflicts = getConflicts(board)

\* C13: given clues are never changed: between two states in which the
\* board is shown and no newGame has intervened initialBoard is unchanged,
\* and every cell that is non-empty in initialBoard holds the same value in
\* the play board.
C13_CluesFixed ==
  /\ [](pc = "play" =>
          \A x \in Cells :
            initialBoard[x[1]][x[2]] # NULL =>
              board[x[1]][x[2]] = initialBoard[x[1]][x[2]])
  /\ [][(pc = "play" /\ pc' = "play") => initialBoard' = initialBoard]_vars

\* A given clue is selected after the play board has been edited.
C13_Witness ==
  /\ pc = "play"
  /\ selectedCell # NoCell
  /\ initialBoard[selectedCell[1]][selectedCell[2]] # NULL
  /\ history # <<>>
  /\ board # initialBoard

====
